---- MODULE Spec2Model ----
(***************************************************************************)
(* QR attendance session protocol of the PW Attendance Portal.             *)
(*                                                                         *)
(* Time is counted in whole seconds (`now`).  The two browser timers of    *)
(* the rotating generator (the setTimeout chain of the session countdown   *)
(* and the setInterval of the rotation) fire in the second they are due,   *)
(* in either order when both are due in the same second.  A promise that   *)
(* is in flight (QRCode.toDataURL inside generateQRWithEntropy) resolves   *)
(* within the second in which it was started, after any number of other    *)
(* handlers of that second.  A state change of a React component is        *)
(* committed together with the effects that depend on it.                  *)
(***************************************************************************)
EXTENDS Naturals, Integers, Sequences, FiniteSets, Bags

\* ---------------------------------------------------------------- bounds
MaxTime == 36
MaxSessions == 2
MaxStoreTime == 2
MaxStoreSessions == 1
MaxFailTime == 12
MaxDeactivations == 1
MaxRecords == 2
NumDevices == 2
NumStudents == 2

\* ------------------------------------------------------ program constants
SessionLifetime == 30
RotationInterval == 5
ScanMaxAge == 30
ChecksumBytes == 9
\* DEFAULT_CONFIG of the HTTP client: retries, retryDelay (ms)
Retries == 3
RetryDelay == 1000
ServerErrorStatus == 500

NULL == [null |-> TRUE]
Devices == 1..NumDevices
FacultyId == "faculty"
Students == 1..NumStudents
\* Who is signed in on which device, up to a renaming of the students.
Logins == {u \in [Devices -> Students] :
             \A d \in Devices : \A st \in 1..(u[d] - 1) :
                \E e \in 1..(d - 1) : u[e] = st}

VARIABLES
  now,               \* wall clock, seconds
  \* OfflineQRGenerator.jsx component state
  isOpen, loading, baseSessionData, qrData, timeLeft, isActive,
  qrRotationTimer, totalRotations,
  timerRef,          \* due time of the pending countdown timeout, {} if none
  rotationTimerRef,  \* next due time of the rotation interval, {} if none
  pending,           \* generateQRWithEntropy promises in flight
  numSessions,       \* session ids handed out so far
  \* QRGenerator.jsx component state
  gen,
  \* the document store: attendance_sessions and attendance
  sessions, attendance,
  \* QRScanner.jsx component state, one per student device, and its signed-in user
  scanner, user,
  \* QRGenerator.jsx: the sessions listed in the "Active QR Sessions" panel
  activeSessions,
  \* deactivateSession calls whose updateDoc is in flight
  deactivating,
  \* the HTTP client: the makeRequest call under way
  req,
  \* the payloads that have been on display: a camera may have kept any of them
  shown

offlineVars == <<isOpen, loading, baseSessionData, qrData, timeLeft, isActive,
                 qrRotationTimer, totalRotations, timerRef, rotationTimerRef,
                 pending, numSessions>>
panelVars == <<activeSessions, deactivating>>
storeSide == <<gen, sessions, attendance, user, panelVars, req>>
vars == <<now, offlineVars, storeSide, scanner, shown>>

\* ------------------------------------------------- Entropy/Token generator

\* `session_${timestamp}_${randomPart}_${uniqueId}`: the text "session_", the
\* 13 digits of Date.now() (the first of them is 1), then the random parts.
\* The digits after the first and the random parts are kept as one token.
SessionIdText(sessionId) ==
  <<"s", "e", "s", "s", "i", "o", "n", "_", "1">> \o <<sessionId>>

\* btoa(`${sessionId}_${rotationIndex}_${microseconds}_${randomSalt}`).substr(0, 12):
\* twelve base64 characters encode exactly the first nine bytes of the text.
Checksum(sessionId, rotationIndex, microseconds, randomSalt) ==
  LET text == SessionIdText(sessionId)
                \o <<"_", rotationIndex, "_", microseconds, "_", randomSalt>>
  IN  SubSeq(text, 1, ChecksumBytes)

\* Math.random().toString(36).substr(2, 20): a value no other payload carries,
\* written as the place and time of its drawing.
RandomSalt(sessionId, rotationIndex, t) == <<sessionId, rotationIndex, t>>

\* A payload whose expiry would be counted from its own generation, for
\* contrast with the code's.
ExtendingQRDataObj(baseData, rotationIndex, t) ==
  [sessionId     |-> baseData.sessionId,
   facultyId     |-> baseData.facultyId,
   expiresAt     |-> t + SessionLifetime,
   rotationIndex |-> rotationIndex,
   timestamp     |-> t,
   randomSalt    |-> RandomSalt(baseData.sessionId, rotationIndex, t),
   checksum      |-> Checksum(baseData.sessionId, rotationIndex, t,
                              RandomSalt(baseData.sessionId, rotationIndex, t))]

\* The payload object built by generateQRWithEntropy at time t.
QRDataObj(baseData, rotationIndex, t) ==
  [sessionId     |-> baseData.sessionId,
   facultyId     |-> baseData.facultyId,
   expiresAt     |-> baseData.expiresAt,
   rotationIndex |-> rotationIndex,
   timestamp     |-> t,
   randomSalt    |-> RandomSalt(baseData.sessionId, rotationIndex, t),
   checksum      |-> Checksum(baseData.sessionId, rotationIndex, t,
                              RandomSalt(baseData.sessionId, rotationIndex, t))]

BaseSessionData(sessionId, t) ==
  [sessionId |-> sessionId,
   facultyId |-> FacultyId,
   generatedAt |-> t,
   expiresAt |-> t + SessionLifetime]

\* ------------------------------------------- OfflineQRGenerator: the effects

\* The main session timer effect and the rotation effect, run after a commit
\* that leaves isActive = a, timeLeft = t, baseSessionData = b.
TimerDepsChanged(a, t) == a # isActive \/ t # timeLeft
\* An effect that would never end the session, for contrast with the code's.
NeverExpiresNow(a, t) == FALSE
ExpiresNow(a, t) == TimerDepsChanged(a, t) /\ ~(a /\ t > 0) /\ t = 0
ActiveAfterEffects(a, t) == IF ExpiresNow(a, t) THEN FALSE ELSE a
TimerAfterEffects(a, t) ==
  IF TimerDepsChanged(a, t)
  THEN (IF a /\ t > 0 THEN {now + 1} ELSE {})
  ELSE timerRef
RotationAfterEffects(a, t, b) ==
  IF ExpiresNow(a, t) THEN {}
  ELSE IF a # isActive \/ b # baseSessionData
       THEN (IF a /\ b # NULL THEN {now + 1} ELSE {})
       ELSE rotationTimerRef

Commit(a, t, b) ==
  /\ isActive' = ActiveAfterEffects(a, t)
  /\ timeLeft' = t
  /\ baseSessionData' = b
  /\ timerRef' = TimerAfterEffects(a, t)
  /\ rotationTimerRef' = RotationAfterEffects(a, t, b)

\* ------------------------------------------ OfflineQRGenerator: the handlers

\* What a camera can be pointed at: the QR image `data` in the modal, if open.
Displayed(open, data) == IF open /\ data # NULL THEN {data} ELSE {}

openModal ==
  /\ ~isOpen
  /\ isOpen' = TRUE
  /\ shown' = shown \cup Displayed(TRUE, qrData)
  /\ UNCHANGED <<now, loading, baseSessionData, qrData, timeLeft, isActive,
                 qrRotationTimer, totalRotations, timerRef, rotationTimerRef,
                 pending, numSessions, scanner, storeSide>>

\* generateQRCode up to its await, entered with isActive = a and timeLeft = t
\* already written by the caller: the base session data is created and stored,
\* and the generation of the rotation-0 payload is started.
BeginGeneration(a, t) ==
  LET base == BaseSessionData(numSessions + 1, now)
  IN  /\ numSessions < MaxSessions
      /\ numSessions' = numSessions + 1
      /\ loading' = TRUE
      /\ pending' = pending \cup
           {[kind |-> "first", payload |-> QRDataObj(base, 0, now)]}
      /\ Commit(a, t, base)

\* The "Generate" button of the form, shown while there is no QR image.
generateQRCode ==
  /\ isOpen /\ qrData = NULL /\ ~loading
  /\ BeginGeneration(isActive, timeLeft)
  /\ UNCHANGED <<now, isOpen, qrData, qrRotationTimer, totalRotations,
                 scanner, shown, storeSide>>

\* The "Generate New QR" button, shown beside the QR image.
regenerateQR ==
  /\ isOpen /\ qrData # NULL
  /\ qrData' = NULL
  /\ qrRotationTimer' = RotationInterval
  /\ totalRotations' = 0
  /\ BeginGeneration(FALSE, SessionLifetime)
  /\ UNCHANGED <<now, isOpen, scanner, shown, storeSide>>

closeModal ==
  /\ isOpen
  /\ isOpen' = FALSE
  /\ qrData' = NULL
  /\ baseSessionData' = NULL
  /\ isActive' = FALSE
  /\ timeLeft' = SessionLifetime
  /\ qrRotationTimer' = RotationInterval
  /\ totalRotations' = 0
  /\ timerRef' = {}
  /\ rotationTimerRef' = {}
  /\ UNCHANGED <<now, loading, pending, numSessions, scanner, shown, storeSide>>

\* The countdown timeout fires: setTimeLeft(timeLeft - 1), then the effects.
CountdownFires ==
  /\ timerRef = {now}
  /\ Commit(isActive, timeLeft - 1, baseSessionData)
  /\ UNCHANGED <<now, isOpen, loading, qrData, qrRotationTimer, totalRotations,
                 pending, numSessions, scanner, shown, storeSide>>

\* A counter that would skip an index, for contrast with the code's.
SkippingRotationCount(current) == current + 2
NextRotationCount(current) == current + 1
\* A countdown that would rotate one second early, for contrast with the code's.
EarlyTimeToRotate(prev) == prev <= 2
TimeToRotate(prev) == prev <= 1

\* The rotation interval fires: count down, and at 1 start the next rotation.
RotationFires ==
  /\ rotationTimerRef = {now}
  /\ rotationTimerRef' = {now + 1}
  /\ IF TimeToRotate(qrRotationTimer)
     THEN /\ totalRotations' = NextRotationCount(totalRotations)
          /\ pending' = pending \cup
               {[kind |-> "rotation",
                 payload |-> QRDataObj(baseSessionData,
                                       NextRotationCount(totalRotations), now)]}
          /\ qrRotationTimer' = RotationInterval
     ELSE /\ qrRotationTimer' = qrRotationTimer - 1
          /\ UNCHANGED <<totalRotations, pending>>
  /\ UNCHANGED <<now, isOpen, loading, baseSessionData, qrData, timeLeft,
                 isActive, timerRef, numSessions, scanner, shown, storeSide>>

\* The promise of a rotation resolves: .then sets the new payload.
RotationResolves ==
  \E g \in pending :
    /\ g.kind = "rotation"
    /\ pending' = pending \ {g}
    /\ qrData' = g.payload
    /\ shown' = shown \cup Displayed(isOpen, g.payload)
    /\ UNCHANGED <<now, isOpen, loading, baseSessionData, timeLeft, isActive,
                   qrRotationTimer, totalRotations, timerRef, rotationTimerRef,
                   numSessions, scanner, storeSide>>

\* A rejection handler that would blank the display, for contrast with the code's.
RotationFailsBlanking ==
  \E g \in pending :
    /\ g.kind = "rotation"
    /\ pending' = pending \ {g}
    /\ qrData' = NULL
    /\ UNCHANGED <<now, isOpen, loading, baseSessionData, timeLeft, isActive,
                   qrRotationTimer, totalRotations, timerRef, rotationTimerRef,
                   numSessions, scanner, shown, storeSide>>

\* The promise of a rotation is rejected: .catch logs the error and does
\* nothing else.
RotationFails ==
  \E g \in pending :
    /\ g.kind = "rotation"
    /\ pending' = pending \ {g}
    /\ UNCHANGED <<now, isOpen, loading, baseSessionData, qrData, timeLeft, isActive,
                   qrRotationTimer, totalRotations, timerRef, rotationTimerRef,
                   numSessions, scanner, shown, storeSide>>

\* generateQRCode after its await: payload 0 is shown and the session starts.
GenerationResolves ==
  \E g \in pending :
    /\ g.kind = "first"
    /\ pending' = pending \ {g}
    /\ qrData' = g.payload
    /\ qrRotationTimer' = RotationInterval
    /\ totalRotations' = 0
    /\ loading' = FALSE
    /\ Commit(TRUE, SessionLifetime, baseSessionData)
    /\ shown' = shown \cup Displayed(isOpen, g.payload)
    /\ UNCHANGED <<now, isOpen, numSessions, scanner, storeSide>>

\* ------------------------------------------------------ the document store

\* createAttendanceSession: the document added to attendance_sessions.
NewSessionDoc(sessionData, t) ==
  [facultyId       |-> sessionData.facultyId,
   expiresAt       |-> sessionData.expiresAt,
   createdAt       |-> t,
   isActive        |-> TRUE,
   studentsPresent |-> <<>>,
   totalPresent    |-> {},
   deactivatedAt   |-> {}]

\* deactivateSession: updateDoc(sessionRef, {isActive: false, deactivatedAt}).
Deactivated(doc, t) == [doc EXCEPT !.isActive = FALSE, !.deactivatedAt = {t}]

SessionExists(sessionId) == sessionId \in DOMAIN sessions /\ sessions[sessionId] # NULL

\* data.expiresAt?.toDate() || new Date(createdAt + 30000)
ExpiryOf(doc) ==
  IF "expiresAt" \in DOMAIN doc THEN doc.expiresAt
  ELSE doc.createdAt + SessionLifetime

\* The documents returned by the query of getActiveSessions(facultyId).
\* QueriedByAnyone would return every faculty's, for contrast with the code's.
QueriedByAnyone(store, facultyId) ==
  {id \in DOMAIN store : store[id] # NULL /\ store[id].isActive}
Queried(store, facultyId) ==
  {id \in DOMAIN store :
     /\ store[id] # NULL
     /\ store[id].facultyId = facultyId /\ store[id].isActive}

\* getActiveSessions(facultyId) at time t: of the documents of the query,
\* those whose expiry is not after t get updateDoc({isActive: false}).
AutoExpired(store, facultyId, t) ==
  [id \in DOMAIN store |->
     IF id \in Queried(store, facultyId) /\ ~(ExpiryOf(store[id]) > t)
     THEN [store[id] EXCEPT !.isActive = FALSE]
     ELSE store[id]]

\* getActiveSessions(facultyId) at time t: what it returns, the documents of
\* the query whose expiry is after t.
ActiveSessionsOf(store, facultyId, t) ==
  {id \in Queried(store, facultyId) : ExpiryOf(store[id]) > t}

\* ------------------------------------------------- QRGenerator: the effects

GenExpiresNow(a, t) ==
  (a # gen.isActive \/ t # gen.timeLeft) /\ ~(a /\ t > 0) /\ t = 0

\* The timer effect of QRGenerator after a commit that leaves the component
\* as g (its isActive and timeLeft already written).
GenCommit(g) ==
  LET changed == g.isActive # gen.isActive \/ g.timeLeft # gen.timeLeft
      timer   == IF ~changed THEN g.timerRef
                 ELSE IF g.isActive /\ g.timeLeft > 0 THEN {now + 1} ELSE {}
  IN  IF GenExpiresNow(g.isActive, g.timeLeft)
      THEN [g EXCEPT !.isActive = FALSE, !.qrData = NULL, !.qrCode = NULL,
                     !.timerRef = timer]
      ELSE [g EXCEPT !.timerRef = timer]

\* ------------------------------------------------ QRGenerator: the handlers

\* qrCode is the image on display, kept as the payload it encodes; sessionData
\* and qrDataObj are the locals of a generateQRCode call in progress.
GenIdle == [isOpen |-> FALSE, loading |-> FALSE, qrData |-> NULL, qrCode |-> NULL,
            timeLeft |-> SessionLifetime, isActive |-> FALSE,
            currentSessionId |-> {}, timerRef |-> {}, pc |-> "idle",
            sessionData |-> NULL, qrDataObj |-> NULL]

genOpenModal ==
  /\ ~gen.isOpen
  /\ gen' = [gen EXCEPT !.isOpen = TRUE]
  /\ shown' = shown \cup Displayed(TRUE, gen.qrCode)
  /\ UNCHANGED <<now, offlineVars, sessions, attendance, user, panelVars, req, scanner>>

\* generateQRCode up to `await createAttendanceSession(sessionData)`.
GenBegin(g) ==
  [g EXCEPT !.loading = TRUE, !.pc = "creating",
            !.sessionData = [facultyId |-> FacultyId,
                             expiresAt |-> now + SessionLifetime]]

\* The "Generate" button, while fewer than `limit` sessions were created.
genGenerateQRCodeWithin(limit) ==
  /\ gen.isOpen /\ gen.qrCode = NULL /\ ~gen.loading
  /\ numSessions < limit
  /\ gen' = GenBegin(gen)
  /\ UNCHANGED <<now, offlineVars, sessions, attendance, user, panelVars, req, scanner, shown>>

genGenerateQRCode == genGenerateQRCodeWithin(MaxStoreSessions)

\* The "Generate New QR" button, while fewer than `limit` sessions were created.
genRegenerateQRWithin(limit) ==
  /\ gen.isOpen /\ gen.qrCode # NULL /\ ~gen.loading
  /\ numSessions < limit
  /\ gen' = GenBegin(GenCommit([gen EXCEPT !.qrData = NULL, !.qrCode = NULL,
                                           !.timeLeft = SessionLifetime,
                                           !.isActive = FALSE]))
  /\ UNCHANGED <<now, offlineVars, sessions, attendance, user, panelVars, req, scanner, shown>>

genRegenerateQR == genRegenerateQRWithin(MaxStoreSessions)

\* createAttendanceSession resolves: the session document exists, and the
\* payload object is built and kept (setQrData, setCurrentSessionId).
GenQRDataObj(sessionId, t) ==
  [sessionId |-> sessionId,
   facultyId |-> FacultyId,
   timestamp |-> t,
   expiresAt |-> t + SessionLifetime]

genSessionCreated ==
  /\ gen.pc = "creating"
  /\ numSessions' = numSessions + 1
  /\ sessions' = [sessions EXCEPT ![numSessions + 1] = NewSessionDoc(gen.sessionData, now)]
  /\ gen' = [gen EXCEPT !.pc = "drawing", !.sessionData = NULL,
                        !.currentSessionId = {numSessions + 1},
                        !.qrData = GenQRDataObj(numSessions + 1, now),
                        !.qrDataObj = GenQRDataObj(numSessions + 1, now)]
  /\ UNCHANGED <<now, isOpen, loading, baseSessionData, qrData, timeLeft, isActive,
                 qrRotationTimer, totalRotations, timerRef, rotationTimerRef,
                 pending, attendance, user, panelVars, req, scanner, shown>>

\* QRCode.toDataURL resolves: the image is put on display (setQrCode).
genImageDrawn ==
  /\ gen.pc = "drawing"
  /\ gen' = [gen EXCEPT !.pc = "saving", !.qrCode = gen.qrDataObj, !.qrDataObj = NULL]
  /\ shown' = shown \cup Displayed(gen.isOpen, gen.qrDataObj)
  /\ UNCHANGED <<now, offlineVars, sessions, attendance, user, panelVars, req, scanner>>

\* saveQRCodeToStorage resolves: the countdown starts, and loadActiveSessions
\* runs getActiveSessions.
genActivated ==
  /\ gen.pc = "saving"
  /\ gen' = GenCommit([gen EXCEPT !.pc = "idle", !.loading = FALSE,
                                  !.timeLeft = SessionLifetime, !.isActive = TRUE])
  /\ sessions' = AutoExpired(sessions, FacultyId, now)
  /\ activeSessions' = ActiveSessionsOf(sessions, FacultyId, now)
  /\ UNCHANGED <<now, offlineVars, attendance, user, deactivating, req, scanner, shown>>

genCountdownFires ==
  /\ gen.timerRef = {now}
  /\ gen' = GenCommit([gen EXCEPT !.timeLeft = gen.timeLeft - 1])
  /\ UNCHANGED <<now, offlineVars, sessions, attendance, user, panelVars, req, scanner, shown>>

\* closeModal of QRGenerator: deactivates the current session if it is active.
genCloseModal ==
  /\ gen.isOpen
  /\ sessions' = IF gen.currentSessionId # {} /\ gen.isActive
                 THEN [id \in DOMAIN sessions |->
                         IF id \in gen.currentSessionId
                         THEN Deactivated(sessions[id], now) ELSE sessions[id]]
                 ELSE sessions
  /\ gen' = [gen EXCEPT !.isOpen = FALSE, !.qrData = NULL, !.qrCode = NULL,
                        !.isActive = FALSE, !.timeLeft = SessionLifetime,
                        !.currentSessionId = {}, !.timerRef = {}]
  /\ UNCHANGED <<now, offlineVars, attendance, user, panelVars, req, scanner, shown>>

\* Who can call the store: the faculty member who creates the sessions, and
\* any other signed-in client.
Callers == {FacultyId, "other"}

\* The "Deactivate" button of a session listed in the panel:
\* deactivateSession(session.id).then(() => loadActiveSessions()).
genDeactivateClicked ==
  \E id \in activeSessions :
    /\ Cardinality(deactivating) < MaxDeactivations
    /\ deactivating' = deactivating \cup
         {[by |-> FacultyId, sessionId |-> id, reload |-> TRUE]}
    /\ UNCHANGED <<now, offlineVars, gen, sessions, attendance, user,
                   activeSessions, req, scanner, shown>>

\* deactivateSession(sessionId) called by a client for a session document
\* that exists: updateDoc is sent.
deactivateSessionCalled ==
  \E by \in Callers, id \in 1..MaxSessions :
    /\ SessionExists(id)
    /\ Cardinality(deactivating) < MaxDeactivations
    /\ deactivating' = deactivating \cup
         {[by |-> by, sessionId |-> id, reload |-> FALSE]}
    /\ UNCHANGED <<now, offlineVars, gen, sessions, attendance, user,
                   activeSessions, req, scanner, shown>>

\* updateDoc(sessionRef, {isActive: false, deactivatedAt}) resolves; after the
\* button, loadActiveSessions runs getActiveSessions.
deactivateSessionResolves ==
  \E r \in deactivating :
    LET store == [sessions EXCEPT ![r.sessionId] = Deactivated(@, now)]
    IN  /\ deactivating' = deactivating \ {r}
        /\ sessions' = IF r.reload THEN AutoExpired(store, FacultyId, now) ELSE store
        /\ activeSessions' = IF r.reload
                             THEN ActiveSessionsOf(store, FacultyId, now)
                             ELSE activeSessions
        /\ UNCHANGED <<now, offlineVars, gen, attendance, user, req, scanner, shown>>

\* loadActiveSessions, as the mount effect of QRGenerator runs it:
\* getActiveSessions(user.uid), then setActiveSessions(result.data).
loadActiveSessions ==
  /\ sessions' = AutoExpired(sessions, FacultyId, now)
  /\ activeSessions' = ActiveSessionsOf(sessions, FacultyId, now)
  /\ UNCHANGED <<now, offlineVars, gen, attendance, user, deactivating, req,
                 scanner, shown>>

\* ------------------------------------------------------------ QRScanner

\* An id that no session was ever given.
UnknownSessionId == MaxSessions + 1

\* A payload with exactly one of its fields changed.
Tampered(p) ==
  {[p EXCEPT !.sessionId = UnknownSessionId]}
  \cup (IF "rotationIndex" \in DOMAIN p
        THEN {[p EXCEPT !.rotationIndex = r] :
                r \in {0, p.rotationIndex + 1} \ {p.rotationIndex}}
             \cup {[p EXCEPT !.randomSalt = <<>>]}
        ELSE {})

\* What the camera of a student can decode.
Scannable == shown \cup UNION {Tampered(p) : p \in shown}

Idle == [step |-> "closed", scannedData |-> NULL, capturedPhoto |-> FALSE,
         error |-> "", success |-> "", pc |-> "idle", attendanceData |-> NULL, studentsPresent |-> <<>>]

\* What closeScanner resets; a submission in flight keeps its own data.
Closed(sc) == [sc EXCEPT !.step = "closed", !.scannedData = NULL,
                         !.capturedPhoto = FALSE, !.error = "", !.success = ""]

\* openScanner followed by startScanning.
startScanning(d) ==
  /\ scanner[d].step = "closed"
  /\ scanner' = [scanner EXCEPT ![d] = [@ EXCEPT !.step = "scanning", !.error = "",
                                                 !.success = ""]]
  /\ UNCHANGED <<now, offlineVars, storeSide, shown>>

\* (now - qrTime) / 1000
TimeDiff(p, t) == t - p.timestamp
QRExpired(p, t) == TimeDiff(p, t) > ScanMaxAge

onScanSuccess(d) ==
  /\ scanner[d].step = "scanning"
  /\ \E p \in Scannable :
       IF QRExpired(p, now)
       THEN scanner' = [scanner EXCEPT ![d] = [@ EXCEPT !.error = "expired"]]
       ELSE scanner' = [scanner EXCEPT ![d] =
                          [@ EXCEPT !.scannedData = p, !.step = "confirm"]]
  /\ UNCHANGED <<now, offlineVars, storeSide, shown>>

confirmAttendance(d) ==
  /\ scanner[d].step = "confirm"
  /\ scanner' = [scanner EXCEPT ![d] = [@ EXCEPT !.step = "photo"]]
  /\ UNCHANGED <<now, offlineVars, storeSide, shown>>

capturePhoto(d) ==
  /\ scanner[d].step = "photo" /\ ~scanner[d].capturedPhoto
  /\ scanner' = [scanner EXCEPT ![d] = [@ EXCEPT !.capturedPhoto = TRUE]]
  /\ UNCHANGED <<now, offlineVars, storeSide, shown>>

\* The Cancel button, the close button of a modal, and the timeout that
\* submitAttendance sets after a success: setTimeout(() => closeScanner(), 2000).
closeScanner(d) ==
  /\ scanner[d].step # "closed"
  /\ scanner' = [scanner EXCEPT ![d] = Closed(@)]
  /\ UNCHANGED <<now, offlineVars, storeSide, shown>>

\* submitAttendance up to `await uploadFile(...)`.
\* loading is set for the time of a submitAttendance call.
Loading(d) == scanner[d].pc # "idle"

Submitting == {d \in Devices : scanner[d].pc \in {"upload", "addDoc"}}

submitAttendance(d) ==
  /\ BagCardinality(attendance) + Cardinality(Submitting) < MaxRecords
  /\ scanner[d].step = "photo" /\ ~Loading(d)
  /\ scanner[d].capturedPhoto /\ scanner[d].scannedData # NULL
  /\ scanner' = [scanner EXCEPT ![d] =
        [@ EXCEPT !.error = "", !.pc = "upload",
                  !.attendanceData = [studentId |-> user[d],
                                      sessionId |-> scanner[d].scannedData.sessionId]]]
  /\ UNCHANGED <<now, offlineVars, storeSide, shown>>

\* uploadFile resolves with a URL; markAttendance is called and awaits addDoc.
photoUploaded(d) ==
  /\ scanner[d].pc = "upload"
  /\ scanner' = [scanner EXCEPT ![d] = [@ EXCEPT !.pc = "addDoc"]]
  /\ UNCHANGED <<now, offlineVars, storeSide, shown>>

\* The end of submitAttendance after uploadFile returned {success: false}: the
\* catch block shows "Failed to upload photo".
UploadFailed(sc) == [sc EXCEPT !.pc = "idle", !.error = "upload",
                               !.attendanceData = NULL]

\* A submission that would go on to markAttendance without a photo URL, for
\* contrast with the code's.
photoUploadFailsIgnored(d) ==
  /\ scanner[d].pc = "upload"
  /\ scanner' = [scanner EXCEPT ![d] = [@ EXCEPT !.pc = "addDoc", !.error = "upload"]]
  /\ UNCHANGED <<now, offlineVars, storeSide, shown>>

\* uploadFile resolves with {success: false}: submitAttendance throws before
\* it calls markAttendance.
photoUploadFails(d) ==
  /\ scanner[d].pc = "upload"
  /\ scanner' = [scanner EXCEPT ![d] = UploadFailed(@)]
  /\ UNCHANGED <<now, offlineVars, storeSide, shown>>

\* The end of submitAttendance after markAttendance returned {success: true}.
Marked(sc) == [sc EXCEPT !.pc = "idle",
                         !.success = "marked", !.attendanceData = NULL,
                         !.studentsPresent = <<>>]

\* A record that would be filed under another session, for contrast with the
\* code's.
MisfiledAttendanceRecord(attendanceData) ==
  [studentId |-> attendanceData.studentId,
   sessionId |-> UnknownSessionId]

\* The document added to the attendance collection (a bag: the store gives
\* every document its own id, so equal documents are kept apart).
AttendanceRecord(attendanceData) ==
  [studentId |-> attendanceData.studentId,
   sessionId |-> attendanceData.sessionId]

\* A store that would keep only the latest document, for contrast with addDoc.
recordAddedOverwriting(d) ==
  /\ scanner[d].pc = "addDoc"
  /\ attendance' = SetToBag({AttendanceRecord(scanner[d].attendanceData)})
  /\ scanner' = [scanner EXCEPT ![d] = [@ EXCEPT !.pc = "getDoc"]]
  /\ UNCHANGED <<now, offlineVars, gen, sessions, user, panelVars, req, shown>>

\* markAttendance: addDoc(collection(db, "attendance"), ...) resolves.
recordAdded(d) ==
  /\ scanner[d].pc = "addDoc"
  /\ attendance' = attendance (+) SetToBag({AttendanceRecord(scanner[d].attendanceData)})
  /\ scanner' = [scanner EXCEPT ![d] = [@ EXCEPT !.pc = "getDoc"]]
  /\ UNCHANGED <<now, offlineVars, gen, sessions, user, panelVars, req, shown>>

\* A membership test that would find nobody, for contrast with the code's.
NobodyPresent(studentsPresent, studentId) == FALSE
\* studentsPresent.some((s) => s.studentId === attendanceData.studentId)
IsPresent(studentsPresent, studentId) ==
  \E i \in 1..Len(studentsPresent) : studentsPresent[i] = studentId

\* markAttendance: getDoc(sessionRef) resolves.  Without a session document, or
\* with the student already listed, markAttendance returns {success: true}.
sessionRead(d) ==
  LET a == scanner[d].attendanceData
  IN  /\ scanner[d].pc = "getDoc"
      /\ IF SessionExists(a.sessionId)
            /\ ~IsPresent(sessions[a.sessionId].studentsPresent, a.studentId)
         THEN /\ scanner' = [scanner EXCEPT ![d] =
                   [@ EXCEPT !.pc = "updateDoc",
                             !.studentsPresent =
                                Append(sessions[a.sessionId].studentsPresent,
                                       a.studentId)]]
         ELSE scanner' = [scanner EXCEPT ![d] = Marked(@)]
      /\ UNCHANGED <<now, offlineVars, storeSide, shown>>

\* markAttendance: updateDoc(sessionRef, {studentsPresent, totalPresent}) resolves.
sessionUpdated(d) ==
  LET a == scanner[d].attendanceData
  IN  /\ scanner[d].pc = "updateDoc"
      /\ sessions' = [sessions EXCEPT ![a.sessionId] =
            [@ EXCEPT !.studentsPresent = scanner[d].studentsPresent,
                      !.totalPresent = {Len(scanner[d].studentsPresent)}]]
      /\ scanner' = [scanner EXCEPT ![d] = Marked(@)]
      /\ UNCHANGED <<now, offlineVars, gen, attendance, user, panelVars, req, shown>>

\* The end of submitAttendance after markAttendance returned {success: false}:
\* the catch block shows "Failed to mark attendance".
MarkFailed(sc) == [sc EXCEPT !.pc = "idle", !.error = "failed",
                             !.attendanceData = NULL, !.studentsPresent = <<>>]

\* markAttendance: addDoc, getDoc or updateDoc rejects; the catch block of
\* markAttendance returns {success: false, error}, whichever call it was.
markAttendanceFails(d) ==
  /\ scanner[d].pc \in {"addDoc", "getDoc", "updateDoc"}
  /\ scanner' = [scanner EXCEPT ![d] = MarkFailed(@)]
  /\ UNCHANGED <<now, offlineVars, storeSide, shown>>

\* ------------------------------------------------------------ HTTP client

\* No makeRequest call was made yet.  attempt is the parameter of the call
\* that is running, log the outcome of every fetch so far, waits the delays
\* slept so far (ms), result what the outermost call returned or threw.
NoRequest == [pc |-> "none", attempt |-> 0, log |-> <<>>, waits |-> <<>>,
              result |-> NULL]

\* What the try block of makeRequest can end in: the response data, or an
\* error thrown by fetch (the abort of the timeout, a network failure) or by
\* handleResponse (ApiError(message, response.status, data?.code)).
TimeoutStatus == 408
FetchOutcomes ==
  {[name |-> "ok", status |-> {200}, code |-> {}],
   [name |-> "AbortError", status |-> {}, code |-> {}],
   [name |-> "TypeError", status |-> {}, code |-> {}],
   [name |-> "ApiError", status |-> {404}, code |-> {}],
   [name |-> "ApiError", status |-> {503}, code |-> {}],
   [name |-> "ApiError", status |-> {404}, code |-> {"TIMEOUT"}],
   [name |-> "ApiError", status |-> {404}, code |-> {"NETWORK_ERROR"}]}

\* attempt < config.retries && (error.status >= 500 || error.code === ...)
shouldRetry(attempt, error) ==
  /\ attempt < Retries
  /\ \/ \E st \in error.status : st >= ServerErrorStatus
     \/ error.code \subseteq {"NETWORK_ERROR", "TIMEOUT"} /\ error.code # {}

\* api.get/post/...: makeRequest(url, options) is called, attempt = 1.
makeRequest ==
  /\ req.pc = "none"
  /\ req' = [req EXCEPT !.pc = "fetch", !.attempt = 1]
  /\ UNCHANGED <<now, offlineVars, gen, sessions, attendance, user, panelVars,
                 scanner, shown>>

\* The try block ends with outcome o; onLine is navigator.onLine as the catch
\* block reads it.
fetchSettles ==
  \E o \in FetchOutcomes, onLine \in BOOLEAN :
    /\ req.pc = "fetch"
    /\ o.name = "ok" => onLine
    /\ LET logged == [req EXCEPT !.log = Append(@, o)]
       IN  req' =
             IF o.name = "ok"
             THEN [logged EXCEPT !.pc = "done", !.result = o]
             ELSE IF o.name = "AbortError"
             THEN [logged EXCEPT !.pc = "done",
                     !.result = [name |-> "ApiError", status |-> {TimeoutStatus},
                                 code |-> {"TIMEOUT"}]]
             ELSE IF ~onLine
             THEN [logged EXCEPT !.pc = "done",
                     !.result = [name |-> "ApiError", status |-> {0},
                                 code |-> {"NETWORK_ERROR"}]]
             ELSE IF shouldRetry(req.attempt, o)
             THEN [logged EXCEPT !.pc = "sleep",
                     !.waits = Append(@, RetryDelay * req.attempt)]
             ELSE [logged EXCEPT !.pc = "done", !.result = o]
    /\ UNCHANGED <<now, offlineVars, gen, sessions, attendance, user, panelVars,
                   scanner, shown>>

\* sleep(config.retryDelay * attempt) is over: makeRequest(url, options,
\* attempt + 1).
retryAfterSleep ==
  /\ req.pc = "sleep"
  /\ req' = [req EXCEPT !.pc = "fetch", !.attempt = req.attempt + 1]
  /\ UNCHANGED <<now, offlineVars, gen, sessions, attendance, user, panelVars,
                 scanner, shown>>

\* ------------------------------------------------------------ the clock

AllTimers == timerRef \cup rotationTimerRef \cup gen.timerRef
TimersQuiet == AllTimers \subseteq (now + 1)..(MaxTime + 1)
NothingInFlight == /\ pending = {}
                   /\ gen.pc = "idle"
                   /\ deactivating = {}
                   /\ \A d \in Devices : scanner[d].pc = "idle"

\* Nothing reads the clock before the first session: time is counted from it.
Elapse(horizon) ==
  /\ now < horizon
  /\ numSessions > 0
  /\ TimersQuiet
  /\ NothingInFlight
  /\ now' = now + 1
  /\ UNCHANGED <<offlineVars, storeSide, scanner, shown>>

Tick == Elapse(MaxTime)
StoreTick == Elapse(MaxStoreTime)
FailTick == Elapse(MaxFailTime)

\* ------------------------------------------------------------ specification

Init ==
  /\ now = 0
  /\ isOpen = FALSE /\ loading = FALSE
  /\ baseSessionData = NULL /\ qrData = NULL
  /\ timeLeft = SessionLifetime /\ isActive = FALSE
  /\ qrRotationTimer = RotationInterval /\ totalRotations = 0
  /\ timerRef = {} /\ rotationTimerRef = {}
  /\ pending = {} /\ numSessions = 0
  /\ gen = GenIdle
  /\ sessions = [id \in 1..MaxSessions |-> NULL]
  /\ attendance = EmptyBag
  /\ user \in Logins
  /\ activeSessions = {} /\ deactivating = {}
  /\ req = NoRequest
  /\ scanner = [d \in Devices |-> Idle]
  /\ shown = {}

\* The rotating generator on its own.
Next ==
  \/ Tick
  \/ openModal
  \/ generateQRCode
  \/ regenerateQR
  \/ closeModal
  \/ CountdownFires
  \/ RotationFires
  \/ RotationResolves
  \/ GenerationResolves

Spec == Init /\ [][Next]_vars

\* The rotating generator when QR image generation can fail, over the first
\* rotations of its sessions.
NextFailing ==
  \/ FailTick
  \/ openModal
  \/ generateQRCode
  \/ regenerateQR
  \/ closeModal
  \/ CountdownFires
  \/ RotationFires
  \/ RotationResolves
  \/ GenerationResolves
  \/ RotationFails

SpecFailing == Init /\ [][NextFailing]_vars

\* The rotating generator and the students' scanners.
NextScan ==
  \/ Next
  \/ startScanning(1)
  \/ onScanSuccess(1)
  \/ closeScanner(1)

SpecScan == Init /\ [][NextScan]_vars

\* The generator that keeps its sessions in the store, the scanners and the
\* store, over the first seconds of a session.
NextStore ==
  \/ StoreTick
  \/ genOpenModal
  \/ genGenerateQRCode
  \/ genSessionCreated
  \/ genImageDrawn
  \/ genActivated
  \/ genCountdownFires
  \/ genCloseModal
  \/ \E d \in Devices : startScanning(d)
  \/ \E d \in Devices : onScanSuccess(d)
  \/ \E d \in Devices : confirmAttendance(d)
  \/ \E d \in Devices : capturePhoto(d)
  \/ \E d \in Devices : closeScanner(d)
  \/ \E d \in Devices : submitAttendance(d)
  \/ \E d \in Devices : photoUploaded(d)
  \/ \E d \in Devices : recordAdded(d)
  \/ \E d \in Devices : sessionRead(d)
  \/ \E d \in Devices : sessionUpdated(d)

SpecStore == Init /\ [][NextStore]_vars

\* The same when a call of markAttendance to the store can fail on device 1.
NextStoreFailing ==
  \/ NextStore
  \/ markAttendanceFails(1)

SpecStoreFailing == Init /\ [][NextStoreFailing]_vars

\* The generator that keeps its sessions in the store, on its own, over the
\* whole life of its sessions.
NextGen ==
  \/ Tick
  \/ genOpenModal
  \/ genGenerateQRCodeWithin(MaxSessions)
  \/ genRegenerateQRWithin(MaxSessions)
  \/ genSessionCreated
  \/ genImageDrawn
  \/ genActivated
  \/ genCountdownFires
  \/ genCloseModal

\* Time passes, timers fire and promises resolve; the faculty member may
\* leave every button alone.
SpecGen ==
  /\ Init /\ [][NextGen]_vars
  /\ WF_vars(Tick)
  /\ WF_vars(genSessionCreated) /\ WF_vars(genImageDrawn) /\ WF_vars(genActivated)
  /\ WF_vars(genCountdownFires)

\* The storing generator with one session, the store and the scanner of one
\* student whose photo upload can fail, over the whole life of the session.
NextLate ==
  \/ Tick
  \/ genOpenModal
  \/ genGenerateQRCode
  \/ genSessionCreated
  \/ genImageDrawn
  \/ genActivated
  \/ genCountdownFires
  \/ genCloseModal
  \/ startScanning(1)
  \/ onScanSuccess(1)
  \/ confirmAttendance(1)
  \/ capturePhoto(1)
  \/ closeScanner(1)
  \/ submitAttendance(1)
  \/ photoUploaded(1)
  \/ photoUploadFails(1)
  \/ recordAdded(1)
  \/ sessionRead(1)
  \/ sessionUpdated(1)

SpecLate == Init /\ [][NextLate]_vars

\* The session documents a store can hold when QRGenerator is mounted: of
\* this faculty member or another, flagged active or not, created at 0 or 1,
\* with expiresAt = createdAt + 30 s or (older documents) without it.
QueryCreatedAt == {0, 1}
QueryDocs ==
  {[facultyId |-> f, expiresAt |-> c + SessionLifetime, createdAt |-> c,
    isActive |-> a, studentsPresent |-> <<>>, totalPresent |-> {},
    deactivatedAt |-> {}] :
      f \in Callers, c \in QueryCreatedAt, a \in BOOLEAN}
  \cup
  {[facultyId |-> f, createdAt |-> c,
    isActive |-> a, studentsPresent |-> <<>>, totalPresent |-> {},
    deactivatedAt |-> {}] :
      f \in Callers, c \in QueryCreatedAt, a \in BOOLEAN}
\* The times of mounting: before, at and after the expiry of such documents.
QueryTimes == (SessionLifetime - 1)..(SessionLifetime + 2)

InitQuery ==
  /\ now \in QueryTimes
  /\ isOpen = FALSE /\ loading = FALSE
  /\ baseSessionData = NULL /\ qrData = NULL
  /\ timeLeft = SessionLifetime /\ isActive = FALSE
  /\ qrRotationTimer = RotationInterval /\ totalRotations = 0
  /\ timerRef = {} /\ rotationTimerRef = {}
  /\ pending = {} /\ numSessions = MaxSessions
  /\ gen = GenIdle
  /\ sessions \in [1..MaxSessions -> QueryDocs \cup {NULL}]
  /\ attendance = EmptyBag
  /\ user \in Logins
  /\ activeSessions = {} /\ deactivating = {}
  /\ req = NoRequest
  /\ scanner = [d \in Devices |-> Idle]
  /\ shown = {}

\* QRGenerator is mounted over a store that holds sessions already.
NextQuery ==
  \/ loadActiveSessions

SpecQuery == InitQuery /\ [][NextQuery]_vars

\* One call of the HTTP client.
NextApi ==
  \/ makeRequest
  \/ fetchSettles
  \/ retryAfterSleep

SpecApi == Init /\ [][NextApi]_vars /\ WF_vars(NextApi)

\* The storing generator with its panel of active sessions, and clients that
\* call deactivateSession.
NextPanel ==
  \/ Tick
  \/ genOpenModal
  \/ genGenerateQRCode
  \/ genSessionCreated
  \/ genImageDrawn
  \/ genActivated
  \/ genCountdownFires
  \/ genCloseModal
  \/ genDeactivateClicked
  \/ deactivateSessionCalled
  \/ deactivateSessionResolves

SpecPanel == Init /\ [][NextPanel]_vars

\* The faculty member works with one of the two generators.  StoreUnused: the
\* storing generator, the store and the scanners are as at the start.
\* OfflineUnused: the rotating generator is as at the start and created no
\* session.
StoreUnused ==
  /\ gen = GenIdle
  /\ \A id \in DOMAIN sessions : sessions[id] = NULL
  /\ \A d \in Devices : scanner[d] = Idle
OfflineUnused ==
  /\ ~isOpen /\ ~loading /\ ~isActive
  /\ baseSessionData = NULL /\ qrData = NULL /\ pending = {}
  /\ numSessions > 0 => SessionExists(1)

\* Either the rotating generator over the whole life of its sessions, or the
\* storing generator with up to MaxSessions sessions, the store and the
\* scanner of one student over the first seconds.
NextEither ==
  \/ StoreUnused /\ Tick
  \/ StoreUnused /\ openModal
  \/ StoreUnused /\ generateQRCode
  \/ StoreUnused /\ regenerateQR
  \/ StoreUnused /\ closeModal
  \/ StoreUnused /\ CountdownFires
  \/ StoreUnused /\ RotationFires
  \/ StoreUnused /\ RotationResolves
  \/ StoreUnused /\ GenerationResolves
  \/ OfflineUnused /\ StoreTick
  \/ OfflineUnused /\ genOpenModal
  \/ OfflineUnused /\ genGenerateQRCodeWithin(MaxSessions)
  \/ OfflineUnused /\ genRegenerateQRWithin(MaxSessions)
  \/ OfflineUnused /\ genSessionCreated
  \/ OfflineUnused /\ genImageDrawn
  \/ OfflineUnused /\ genActivated
  \/ OfflineUnused /\ genCountdownFires
  \/ OfflineUnused /\ genCloseModal
  \/ OfflineUnused /\ startScanning(1)
  \/ OfflineUnused /\ onScanSuccess(1)
  \/ OfflineUnused /\ confirmAttendance(1)
  \/ OfflineUnused /\ capturePhoto(1)
  \/ OfflineUnused /\ closeScanner(1)
  \/ OfflineUnused /\ submitAttendance(1)
  \/ OfflineUnused /\ photoUploaded(1)
  \/ OfflineUnused /\ recordAdded(1)
  \/ OfflineUnused /\ sessionRead(1)
  \/ OfflineUnused /\ sessionUpdated(1)

SpecEither == Init /\ [][NextEither]_vars

\* Either generator on its own over the whole life of its sessions (one
\* session of the storing generator).  Time
\* passes, timers fire and promises resolve; the faculty member may leave
\* every button alone.
NextCountdown ==
  \/ StoreUnused /\ Tick
  \/ StoreUnused /\ openModal
  \/ StoreUnused /\ generateQRCode
  \/ StoreUnused /\ regenerateQR
  \/ StoreUnused /\ closeModal
  \/ StoreUnused /\ CountdownFires
  \/ StoreUnused /\ RotationFires
  \/ StoreUnused /\ RotationResolves
  \/ StoreUnused /\ GenerationResolves
  \/ OfflineUnused /\ Tick
  \/ OfflineUnused /\ genOpenModal
  \/ OfflineUnused /\ genGenerateQRCode
  \/ OfflineUnused /\ genSessionCreated
  \/ OfflineUnused /\ genImageDrawn
  \/ OfflineUnused /\ genActivated
  \/ OfflineUnused /\ genCountdownFires
  \/ OfflineUnused /\ genCloseModal

SpecCountdown ==
  /\ Init /\ [][NextCountdown]_vars
  /\ WF_vars(Tick)
  /\ WF_vars(CountdownFires) /\ WF_vars(RotationFires)
  /\ WF_vars(RotationResolves) /\ WF_vars(GenerationResolves)
  /\ WF_vars(genSessionCreated) /\ WF_vars(genImageDrawn) /\ WF_vars(genActivated)
  /\ WF_vars(genCountdownFires)

\* ------------------------------------------------------------ properties

\* The attendance documents of one (session, student) pair.
RecordsOf(sessionId, studentId) ==
  CopiesIn([studentId |-> studentId, sessionId |-> sessionId], attendance)

\* A markAttendance call of device d is under way.
InMarkAttendance(d) == scanner[d].pc \in {"addDoc", "getDoc", "updateDoc"}

\* The scanner of device d accepts a payload in this step.
Accepts(d) == scanner[d].step = "scanning" /\ scanner'[d].step = "confirm"

\* C1: while two markAttendance calls for one (session, student) pair are under
\* way at the same time, the attendance collection holds at most one record
\* of that pair (the second call records nothing).
C1_AtMostOnceConcurrent ==
  \A d, e \in Devices :
    (/\ d # e
     /\ InMarkAttendance(d) /\ InMarkAttendance(e)
     /\ scanner[d].attendanceData = scanner[e].attendanceData)
    => RecordsOf(scanner[d].attendanceData.sessionId,
                 scanner[d].attendanceData.studentId) <= 1

\* C2: a payload of an earlier rotation is not accepted once a later rotation
\* of the same, still active, session is on display.
C2_StaleRejected ==
  [][\A d \in Devices :
       Accepts(d) =>
         LET p == scanner'[d].scannedData
         IN  ~(/\ p \in shown
               /\ isActive /\ qrData # NULL
               /\ qrData.sessionId = p.sessionId
               /\ p.rotationIndex < qrData.rotationIndex)]_vars

\* C3: no payload a session has shown is accepted at or after the session's
\* expiration time (creation time + 30 s).
C3_ExpiredRejected ==
  [][\A d \in Devices :
       Accepts(d) =>
         LET p == scanner'[d].scannedData
         IN  p \in shown => now < p.expiresAt]_vars

\* C4: no payload is generated at or after the expiration time of its session.
C4_NoPayloadAfterExpiry ==
  \A g \in pending : g.payload.timestamp < g.payload.expiresAt

\* C5: within a session the rotation counter moves only from n to n + 1, it is
\* 0 when the session changes, and every payload whose generation starts
\* carries the counter's value.
C5_MonotonicRotation ==
  [][/\ (baseSessionData' = baseSessionData /\ baseSessionData # NULL)
          => totalRotations' \in {totalRotations, totalRotations + 1}
     /\ baseSessionData' # baseSessionData => totalRotations' = 0
     /\ \A g \in pending' \ pending : g.payload.rotationIndex = totalRotations']_vars

C5_Witness ==
  /\ isActive /\ totalRotations = 3
  /\ qrData # NULL /\ qrData.rotationIndex = 3

\* C6: when no submission is under way, the students listed in a session
\* document, and its totalPresent, are as many as the students who have a
\* record for that session.
Recorded(sessionId) == {st \in Students : RecordsOf(sessionId, st) > 0}
Present(doc) == {doc.studentsPresent[i] : i \in 1..Len(doc.studentsPresent)}
C6_AggregateConsistent ==
  (\A d \in Devices : scanner[d].pc = "idle") =>
    \A id \in 1..MaxSessions :
      SessionExists(id) =>
        /\ Cardinality(Present(sessions[id])) = Cardinality(Recorded(id))
        /\ sessions[id].totalPresent \in {{}, {Cardinality(Recorded(id))}}
        /\ sessions[id].totalPresent = {} => Recorded(id) = {}

\* C7: a second submission of the same scan, made after the first one
\* succeeded, adds no record: the pair keeps exactly one.
C7_IdempotentSequential ==
  \A d \in Devices :
    (scanner[d].success = "marked" /\ scanner[d].pc \in {"getDoc", "updateDoc"})
    => RecordsOf(scanner[d].attendanceData.sessionId,
                 scanner[d].attendanceData.studentId) = 1

\* C8: a payload that differs in one field from a payload that was shown is
\* not accepted.
C8_TamperedRejected ==
  [][\A d \in Devices :
       Accepts(d) =>
         scanner'[d].scannedData \notin (UNION {Tampered(p) : p \in shown}) \ shown]_vars

\* C9: a payload of a session that was deactivated earlier is not accepted.
C9_DeactivatedRejected ==
  [][\A d \in Devices :
       Accepts(d) =>
         LET p == scanner'[d].scannedData
         IN  ~(/\ SessionExists(p.sessionId)
               /\ \E t \in sessions[p.sessionId].deactivatedAt : t < now)]_vars

\* C10: a rotation whose promise resolves after the generator was closed, or
\* after the session stopped being active, sets no payload.
C10_CancelledTickDoesNothing ==
  [][(/\ \E g \in pending : g.kind = "rotation" /\ pending' = pending \ {g}
      /\ (baseSessionData = NULL \/ ~isActive))
     => qrData' = qrData]_vars

\* Seconds since the running session was created.
Elapsed == now - baseSessionData.generatedAt

\* The payload on display belongs to the running session.
ShowsRunningSession ==
  qrData # NULL /\ qrData.sessionId = baseSessionData.sessionId

\* C11: while a session runs, up to 4 seconds after its creation the rotation
\* counter and the payload on display are at rotation 0, and from 6 to 9
\* seconds after it they are at rotation 1.
C11_ScenarioATiming ==
  (isActive /\ baseSessionData # NULL) =>
    /\ Elapsed \in 0..(RotationInterval - 1) =>
         /\ totalRotations = 0
         /\ ShowsRunningSession => qrData.rotationIndex = 0
    /\ Elapsed \in (RotationInterval + 1)..(2 * RotationInterval - 1) =>
         /\ totalRotations = 1
         /\ ShowsRunningSession => qrData.rotationIndex = 1

C11_Witness ==
  /\ isActive /\ baseSessionData # NULL
  /\ Elapsed = RotationInterval + 1
  /\ ShowsRunningSession /\ qrData.rotationIndex = 1

\* The generator's session is over: the modal was closed on it (no base
\* session is left) or its countdown has run out.
SessionOver == ~isActive /\ (baseSessionData = NULL \/ timeLeft = 0)

\* C12: once the generator's session is over, no step that keeps that session
\* makes it active again, schedules a countdown or rotation timer, starts the
\* generation of a payload or puts a new payload on display.
C12_ExpiredAbsorbing ==
  [][(SessionOver /\ baseSessionData' = baseSessionData) =>
       /\ ~isActive'
       /\ timerRef' = {} /\ rotationTimerRef' = {}
       /\ pending' \subseteq pending
       /\ qrData' \in {qrData, NULL}]_vars

\* C14: no scan is turned away because another student scanned the same
\* payload, and every submission that ends, ends in success with the
\* student's own record in the attendance collection, whatever the other
\* devices do in between.
C14_ConcurrentScansAccepted ==
  [][\A d \in Devices :
       /\ scanner[d].step = "scanning" => scanner'[d].error # "expired"
       /\ (Loading(d) /\ scanner'[d].pc = "idle") =>
            /\ scanner'[d].success = "marked"
            /\ CopiesIn(AttendanceRecord(scanner[d].attendanceData), attendance') >= 1]_vars

\* Two students who scanned the same payload are inside markAttendance at once.
C14_Witness ==
  \E d, e \in Devices :
    /\ user[d] # user[e]
    /\ scanner[d].pc = "updateDoc" /\ scanner[e].pc = "updateDoc"
    /\ scanner[d].scannedData # NULL /\ scanner[d].scannedData \in shown
    /\ scanner[d].scannedData = scanner[e].scannedData
    /\ RecordsOf(scanner[d].attendanceData.sessionId, user[d]) = 1
    /\ RecordsOf(scanner[e].attendanceData.sessionId, user[e]) = 1

\* C16: every attendance record names a session that exists in the store.
C16_UnknownSessionRejected ==
  \A r \in BagToSet(attendance) : SessionExists(r.sessionId)

\* C15: when a scan is accepted, the same payload with any other value in its
\* timestamp field would be accepted at that moment too.
C15_TimestampIndependent ==
  [][\A d \in Devices :
       Accepts(d) =>
         \A ts \in 0..MaxTime :
           ~QRExpired([scanner'[d].scannedData EXCEPT !.timestamp = ts], now)]_vars

\* C19: a step that takes a rotation's promise away without putting its
\* payload on display (the generation failed) leaves the payload on display,
\* the session's activity, its countdown and both timers as they were.
C19_FailedRotationKeepsPayload ==
  [][\A g \in pending :
       (g.kind = "rotation" /\ pending' = pending \ {g} /\ qrData' # g.payload)
       => /\ qrData' = qrData
          /\ isActive' = isActive
          /\ baseSessionData' = baseSessionData
          /\ timeLeft' = timeLeft
          /\ timerRef' = timerRef /\ rotationTimerRef' = rotationTimerRef]_vars

\* A running session whose display stayed behind the rotation counter after
\* a failed generation.
C19_Witness ==
  /\ isActive /\ baseSessionData # NULL /\ pending = {}
  /\ ShowsRunningSession
  /\ qrData.rotationIndex < totalRotations

\* C17: a markAttendance call that fails after its record was written (in
\* getDoc or updateDoc) does not end in the outcome of a call that wrote
\* nothing ("failed").
C17_PartialWriteReported ==
  [][\A d \in Devices :
       (/\ scanner[d].pc \in {"getDoc", "updateDoc"}
        /\ scanner'[d].pc = "idle"
        /\ scanner'[d].error # "")
       => scanner'[d].error # "failed"]_vars

\* C18: every session document that exists is eventually inactive in the
\* store, with no scan and no faculty action needed.
C18_StoreEventuallyInactive ==
  \A id \in 1..MaxSessions :
    SessionExists(id) ~> (SessionExists(id) /\ ~sessions[id].isActive)

\* The session documents other than those in `ids` are left as they are.
OthersUntouched(ids) ==
  \A id \in DOMAIN sessions : id \notin ids => sessions'[id] = sessions[id]

\* C20: a step of markAttendance for session A, and a closeModal that
\* deactivates session A, leave the document of every other session as it is;
\* and a rotation of session A that completes while the generator holds
\* another session B leaves B's payload, activity, countdown and rotation
\* counter as they are.
C20_SessionsIndependent ==
  [][/\ \A d \in Devices :
          (InMarkAttendance(d) /\ scanner'[d] # scanner[d])
          => OthersUntouched({scanner[d].attendanceData.sessionId})
     /\ (gen.isOpen /\ ~gen'.isOpen) => OthersUntouched(gen.currentSessionId)
     /\ \A g \in pending :
          (/\ g.kind = "rotation" /\ pending' = pending \ {g}
           /\ baseSessionData # NULL
           /\ g.payload.sessionId # baseSessionData.sessionId)
          => /\ baseSessionData' = baseSessionData
             /\ qrData' = qrData
             /\ isActive' = isActive /\ timeLeft' = timeLeft
             /\ totalRotations' = totalRotations]_vars

\* C13: no step changes the expiresAt or createdAt of a session document; the
\* rotating generator's session keeps its expiresAt, every payload whose
\* generation starts carries it, and a rotation leaves the countdown alone.
C13_ExpiryFixed ==
  [][/\ \A id \in DOMAIN sessions :
          SessionExists(id) =>
            /\ sessions'[id] # NULL
            /\ sessions'[id].expiresAt = sessions[id].expiresAt
            /\ sessions'[id].createdAt = sessions[id].createdAt
     /\ (baseSessionData # NULL /\ baseSessionData' # NULL
         /\ baseSessionData'.sessionId = baseSessionData.sessionId)
        => baseSessionData'.expiresAt = baseSessionData.expiresAt
     /\ \A g \in pending' \ pending :
          /\ baseSessionData' # NULL
          /\ g.payload.expiresAt = baseSessionData'.expiresAt
          /\ g.payload.expiresAt = baseSessionData'.generatedAt + SessionLifetime
     /\ (totalRotations' = totalRotations + 1
         \/ \E g \in pending : g.kind = "rotation" /\ pending' = pending \ {g})
        => timeLeft' = timeLeft]_vars

\* A session in its second rotation whose payload on display carries the
\* expiration time set at creation.
C13_Witness ==
  /\ isActive /\ baseSessionData # NULL /\ ShowsRunningSession
  /\ totalRotations = 2 /\ qrData.rotationIndex = 2
  /\ qrData.expiresAt = baseSessionData.generatedAt + SessionLifetime
  /\ timeLeft = SessionLifetime - 2 * RotationInterval

\* C21: a deactivateSession call made by anyone but the session's facultyId
\* leaves the session's isActive as it was when its update resolves.
C21_OnlyCreatorDeactivates ==
  [][\A r \in deactivating :
       (/\ deactivating' = deactivating \ {r}
        /\ r.by # sessions[r.sessionId].facultyId)
       => sessions'[r.sessionId].isActive = sessions[r.sessionId].isActive]_vars

\* The fetch outcomes of the call that ended in a request timeout.
TimedOut == req.log # <<>> /\ req.log[Len(req.log)].name = "AbortError"

\* C22: makeRequest makes at most `retries` attempts, sleeps retryDelay * n
\* after the n-th failed attempt, and gives up on a request that timed out
\* only when no attempt is left.
C22_BoundedRetry ==
  /\ Len(req.log) <= Retries
  /\ req.attempt <= Retries
  /\ \A i \in 1..Len(req.waits) : req.waits[i] = RetryDelay * i
  /\ Len(req.waits) \in {Len(req.log), Len(req.log) - 1}
  /\ (req.pc = "done" /\ TimedOut) => Len(req.log) = Retries

\* Every makeRequest call ends with a result or an error.
MakeRequestTerminates == (req.pc # "none") ~> (req.pc = "done" /\ req.result # NULL)

\* C23: no session document lists a student twice in studentsPresent, and a
\* totalPresent that is set equals the length of studentsPresent.
C23_NoDuplicatePresent ==
  \A id \in 1..MaxSessions :
    SessionExists(id) =>
      LET present == sessions[id].studentsPresent
      IN  /\ \A i, j \in 1..Len(present) : present[i] = present[j] => i = j
          /\ \A n \in sessions[id].totalPresent : n = Len(present)

\* Two markAttendance calls of one student for one session interleave: one
\* has written the aggregate while the other, which read the session before
\* that, is about to write it.
C23_Witness ==
  \E d, e \in Devices :
    /\ d # e /\ user[d] = user[e]
    /\ scanner[d].pc = "idle" /\ scanner[d].success = "marked"
    /\ scanner[e].pc = "updateDoc"
    /\ SessionExists(scanner[e].attendanceData.sessionId)
    /\ sessions[scanner[e].attendanceData.sessionId].studentsPresent = <<user[e]>>
    /\ sessions[scanner[e].attendanceData.sessionId].totalPresent = {1}
    /\ scanner[e].studentsPresent = <<user[e]>>

\* C24: every student listed in the studentsPresent of a session document has
\* at least one record for that session in the attendance collection.
C24_ListedHasRecord ==
  \A id \in 1..MaxSessions :
    SessionExists(id) =>
      \A st \in Present(sessions[id]) : RecordsOf(id, st) >= 1

\* A session document that lists a student while the markAttendance call of
\* another student for it is between its record and its aggregate update.
C24_Witness ==
  \E id \in 1..MaxSessions, d \in Devices :
    /\ SessionExists(id) /\ Present(sessions[id]) # {}
    /\ scanner[d].pc \in {"getDoc", "updateDoc"}
    /\ scanner[d].attendanceData.sessionId = id
    /\ user[d] \notin Present(sessions[id])
    /\ RecordsOf(id, user[d]) >= 1

\* C25: a record is added to the attendance collection for a session document
\* only while the session is active and its expiration time has not come.
C25_NoRecordAfterExpiry ==
  [][\A d \in Devices :
       (scanner[d].pc = "addDoc" /\ attendance' # attendance
        /\ SessionExists(scanner[d].attendanceData.sessionId))
       => /\ sessions[scanner[d].attendanceData.sessionId].isActive
          /\ now < sessions[scanner[d].attendanceData.sessionId].expiresAt]_vars

\* C26: while a session runs with a payload on display and no payload
\* generation in flight, the rotation index of that payload equals the
\* rotation counter.
C26_DisplayedIndexIsCounter ==
  (isActive /\ baseSessionData # NULL /\ qrData # NULL /\ pending = {})
  => qrData.rotationIndex = totalRotations

\* C27: the payload on display carries the session id of the generator's
\* current session, and a closed generator holds no payload.
C27_PayloadOfCurrentSession ==
  /\ (qrData # NULL /\ baseSessionData # NULL)
       => qrData.sessionId = baseSessionData.sessionId
  /\ ~isOpen => qrData = NULL

\* C28: a submission starts only with a photo and scanned data, markAttendance
\* is entered only from a photo upload that succeeded, a record is written only
\* by markAttendance, and a submission whose upload failed ends there, with
\* the attendance collection and the session documents left as they are.
C28_UploadPrecedesWrite ==
  [][/\ \A d \in Devices :
          /\ (scanner[d].pc = "idle" /\ scanner'[d].pc # "idle")
               => /\ scanner[d].capturedPhoto /\ scanner[d].scannedData # NULL
                  /\ scanner'[d].pc = "upload"
          /\ (scanner[d].pc # "addDoc" /\ scanner'[d].pc = "addDoc")
               => scanner[d].pc = "upload" /\ scanner'[d].error # "upload"
          /\ (scanner[d].pc = "upload" /\ scanner'[d].error = "upload")
               => /\ scanner'[d].pc = "idle"
                  /\ attendance' = attendance /\ sessions' = sessions
     /\ attendance' # attendance => \E d \in Devices : scanner[d].pc = "addDoc"]_vars

\* A submission for a shown payload has ended in a failed upload and the
\* attendance collection is empty.
C28_Witness ==
  /\ scanner[1].pc = "idle" /\ scanner[1].error = "upload"
  /\ scanner[1].scannedData \in shown /\ scanner[1].capturedPhoto
  /\ attendance = EmptyBag
  /\ \A id \in 1..MaxSessions :
       SessionExists(id) => sessions[id].studentsPresent = <<>>

\* C29: the sessions getActiveSessions returns are this faculty member's,
\* flagged active and with an expiry (expiresAt, or createdAt + 30 s without
\* it) later than now; every session of the faculty member that is flagged
\* active and past its expiry is inactive afterwards; and no session goes
\* from inactive to active.
C29_ActiveSessionsQuery ==
  [][/\ \A id \in activeSessions' :
          /\ SessionExists(id)
          /\ sessions[id].facultyId = FacultyId
          /\ sessions[id].isActive
          /\ IF "expiresAt" \in DOMAIN sessions[id]
             THEN sessions[id].expiresAt > now
             ELSE sessions[id].createdAt + SessionLifetime > now
     /\ \A id \in DOMAIN sessions :
          SessionExists(id) =>
            /\ sessions'[id] # NULL
            /\ sessions'[id].isActive => sessions[id].isActive
            /\ (/\ sessions[id].facultyId = FacultyId /\ sessions[id].isActive
                /\ "expiresAt" \in DOMAIN sessions[id]
                /\ sessions[id].expiresAt < now)
               => ~sessions'[id].isActive
            /\ (/\ sessions[id].facultyId = FacultyId /\ sessions[id].isActive
                /\ "expiresAt" \notin DOMAIN sessions[id]
                /\ sessions[id].createdAt + SessionLifetime < now)
               => ~sessions'[id].isActive]_vars

\* The panel lists the session of the faculty member that is still running
\* (its expiry counted from createdAt), and not their other session, whose
\* expiry has come and which is inactive.
C29_Witness ==
  /\ now = SessionLifetime
  /\ activeSessions = {1}
  /\ sessions[1] # NULL /\ sessions[1].facultyId = FacultyId /\ sessions[1].isActive
  /\ "expiresAt" \notin DOMAIN sessions[1]
  /\ ExpiryOf(sessions[1]) = SessionLifetime + 1
  /\ sessions[2] # NULL /\ sessions[2].facultyId = FacultyId /\ ~sessions[2].isActive
  /\ ExpiryOf(sessions[2]) = SessionLifetime

\* A session of the rotating generator, or of the storing generator, has just
\* been activated, early enough for its 30 seconds to lie within MaxTime.
OfflineActivated ==
  isOpen /\ ~loading /\ isActive /\ timeLeft = SessionLifetime
  /\ now + SessionLifetime <= MaxTime
GenActivated ==
  gen.isOpen /\ ~gen.loading /\ gen.isActive /\ gen.timeLeft = SessionLifetime
  /\ now + SessionLifetime <= MaxTime

\* C30: the countdown of either generator never leaves 0..30, a firing of its
\* timer takes exactly 1 from it, and a session activated with 30 seconds
\* left reaches 0 seconds left and inactive, unless the modal is closed or a
\* new QR is generated before.
C30_CountdownLiveness ==
  /\ [](timeLeft \in 0..SessionLifetime /\ gen.timeLeft \in 0..SessionLifetime)
  /\ [][/\ (timerRef = {now} /\ timeLeft' # timeLeft /\ isOpen' /\ loading' = loading)
           => timeLeft' = timeLeft - 1
        /\ (gen.timerRef = {now} /\ gen'.timeLeft # gen.timeLeft
            /\ gen'.isOpen /\ gen'.loading = gen.loading)
           => gen'.timeLeft = gen.timeLeft - 1]_vars
  /\ OfflineActivated ~> ((timeLeft = 0 /\ ~isActive) \/ ~isOpen \/ loading)
  /\ GenActivated ~> ((gen.timeLeft = 0 /\ ~gen.isActive) \/ ~gen.isOpen \/ gen.loading)

\* A session of the storing generator, activated and left alone, that has
\* counted down to 0 and is inactive.
C30_Witness ==
  /\ gen.isOpen /\ ~gen.loading /\ gen.timeLeft = 0 /\ ~gen.isActive
  /\ numSessions = 1 /\ now = SessionLifetime

====
